---------------------------- MODULE Spec2Model ----------------------------
(***************************************************************************)
(* Model of the warranty_rag chat application (src/app.py,                 *)
(* src/clickhouse_client.py): the question handler, the mode router, the   *)
(* RAG pipeline and the SQL pipeline with its single repair attempt.       *)
(*                                                                         *)
(* Texts are TLA+ strings handled character by character (Len, SubSeq,     *)
(* \o).  Two notational stand-ins are used because a TLA+ string literal   *)
(* holds neither a backquote nor a Cyrillic letter:                        *)
(*   - the character ~ stands for the backquote, so "~~~sql" is the        *)
(*     markdown fence of the source and ~db1~ a quoted identifier;         *)
(*   - the Russian literals of the source are written transliterated.     *)
(***************************************************************************)
EXTENDS Integers, Sequences, FiniteSets, TLC

(***************************************************************************)
(* Python string primitives                                                *)
(***************************************************************************)

\* str[i] for a 1-based position
Ch(s, i) == SubSeq(s, i, i)

\* the characters str.strip() and str.split() treat as whitespace
IsSpace(c) == c \in {" ", "\n", "\t"}

UpperLetters == "ABCDEFGHIJKLMNOPQRSTUVWXYZ"

LowerLetters == "abcdefghijklmnopqrstuvwxyz"

\* the lower-case letter of each upper-case letter
UpperToLower ==
    [c \in {Ch(UpperLetters, i) : i \in 1..Len(UpperLetters)} |->
        Ch(LowerLetters, CHOOSE i \in 1..Len(UpperLetters) : Ch(UpperLetters, i) = c)]

\* str.lower() on one character
LowerChar(c) == IF c \in DOMAIN UpperToLower THEN UpperToLower[c] ELSE c

\* the element of a one-element set. {e(t) : t \in {x}} computes x once, where
\* an operator's argument is computed again at every place the operator uses it
Only(S) == CHOOSE y \in S : TRUE

RECURSIVE Lower(_)
\* str.lower()
Lower(s) ==
    Only({IF t = "" THEN "" ELSE LowerChar(Ch(t, 1)) \o Lower(Tail(t)) : t \in {s}})

RECURSIVE LStrip(_)
LStrip(s) ==
    Only({IF t # "" /\ IsSpace(Ch(t, 1)) THEN LStrip(Tail(t)) ELSE t : t \in {s}})

RECURSIVE RStrip(_)
RStrip(s) ==
    Only({IF t # "" /\ IsSpace(Ch(t, Len(t)))
          THEN RStrip(SubSeq(t, 1, Len(t) - 1))
          ELSE t : t \in {s}})

\* str.strip()
Strip(s) == RStrip(LStrip(s))

\* str.startswith(p)
StartsWith(s, p) ==
    \E t \in {s} : Len(p) <= Len(t) /\ SubSeq(t, 1, Len(p)) = p

\* "sub in s"
Contains(s, sub) ==
    \E t \in {s} :
        \E i \in 1..(Len(t) + 1) :
            i + Len(sub) - 1 <= Len(t) /\ SubSeq(t, i, i + Len(sub) - 1) = sub

\* str.find(sub, start): 0-based index of the first occurrence at or after the
\* 0-based position start, -1 when there is none
Find(s, sub, start) ==
    LET hits(t) == {i \in start..Len(t) :
                       i + Len(sub) <= Len(t) /\ SubSeq(t, i + 1, i + Len(sub)) = sub}
    IN Only({IF h = {} THEN -1 ELSE CHOOSE i \in h : \A j \in h : i <= j :
               h \in {hits(t) : t \in {s}}})

RECURSIVE Replace(_, _, _)
\* str.replace(needle, repl): every non-overlapping occurrence, left to right
Replace(s, needle, repl) ==
    Only({IF t = "" \/ needle = "" THEN t
          ELSE IF StartsWith(t, needle)
               THEN repl \o Replace(SubSeq(t, Len(needle) + 1, Len(t)), needle, repl)
               ELSE Ch(t, 1) \o Replace(Tail(t), needle, repl) : t \in {s}})

RECURSIVE CollapseSpaces(_)
\* " ".join(s.split()) on an already stripped text: each run of whitespace
\* becomes one space
CollapseSpaces(s) ==
    Only({IF t = "" THEN ""
          ELSE IF IsSpace(Ch(t, 1))
               THEN " " \o CollapseSpaces(LStrip(t))
               ELSE Ch(t, 1) \o CollapseSpaces(Tail(t)) : t \in {s}})

\* " ".join(s.split())
JoinSplit(s) == CollapseSpaces(Strip(s))

(***************************************************************************)
(* Literals of the source (transliterated, ~ for the backquote)            *)
(***************************************************************************)

\* app.py:30 and clickhouse_client.py:20, the default of CLICKHOUSE_DB
CLICKHOUSE_DB == "db1"

\* the content of the first, synthetic assistant turn
GREETING == "Zadajte vopros. Ya otvechu strogo po baze znanij (RAG)."

\* the prefix _get_chat_history_for_gpt filters assistant turns on
GREETING_PREFIX == "Zadajte vopros."

\* the answer text of a successful SQL turn
SQL_DONE_TEXT == "Gotovo. Vypolnil SQL i pokazal rezultat."

\* the marker _handle_sql_message puts before the error text
SQL_ERROR_PREFIX == "Oshibka SQL: "

\* the prefix of the error raised for a text the validator rejects
SQL_BLOCKED_PREFIX == "SQL zablokirovan: "

\* the error raised when the generation reply holds no SQL
NO_SQL_ERROR == "GPT ne vernul SQL."

REASON_EMPTY == "Pustoj SQL."

REASON_SYSTEM == "Zapreshcheny zaprosy k system.*"

REASON_NOT_SELECT == "Razresheny tolko SELECT / WITH ... SELECT."

REASON_DDL == "Zapreshcheny DDL i lyubye izmeneniya dannyh."

\* a message without an attached SQL string or table: dict.get gives None
None == "<None>"

(***************************************************************************)
(* Pure functions of app.py                                                *)
(***************************************************************************)

\* _normalize_user_text: strip, four fixed typo replacements, whitespace collapse
_normalize_user_text(text) ==
    LET t == Strip(text)
        n1 == Replace(t, "pogorodu", "po gorodu")
        n2 == Replace(n1, "podate", "po date")
        n3 == Replace(n2, "videsh", "vidish")
        n4 == Replace(n3, "videt", "vidit")
    IN IF t = "" THEN "" ELSE JoinSplit(n4)

\* the marker and the word _select_mode looks for in the lowered reply
MODE_MARKER == "~~~mode"

\* _select_mode, the part after the model call: the mode for a reply
ParseMode(reply) ==
    LET mode_text == Lower(Strip(reply))
    IN IF Contains(mode_text, MODE_MARKER) /\ Contains(mode_text, "sql")
       THEN "SQL" ELSE "RAG"

FENCE == "~~~"

\* _extract_sql_text looking for the start marker without lower()
_extract_sql_text_CaseSensitive(model_text) ==
    LET text == Strip(model_text)
        start_marker == FENCE \o "sql"
        start_index == Find(text, start_marker, 0)
        nl_index == IF start_index = -1 THEN -1 ELSE Find(text, "\n", start_index)
        end_index == IF nl_index = -1 THEN -1 ELSE Find(text, FENCE, nl_index + 1)
    IN IF text = "" THEN ""
       ELSE IF ~Contains(text, FENCE) THEN text
       ELSE IF start_index = -1 THEN text
       ELSE IF nl_index = -1 THEN text
       ELSE IF end_index = -1 THEN Strip(SubSeq(text, nl_index + 2, Len(text)))
       ELSE Strip(SubSeq(text, nl_index + 2, end_index))

\* _extract_sql_text
_extract_sql_text(model_text) ==
    LET text == Strip(model_text)
        start_marker == FENCE \o "sql"
        start_index == Find(Lower(text), start_marker, 0)
        nl_index == IF start_index = -1 THEN -1 ELSE Find(text, "\n", start_index)
        end_index == IF nl_index = -1 THEN -1 ELSE Find(text, FENCE, nl_index + 1)
    IN IF text = "" THEN ""
       ELSE IF ~Contains(text, FENCE) THEN text
       ELSE IF start_index = -1 THEN text
       ELSE IF nl_index = -1 THEN text
       ELSE IF end_index = -1 THEN Strip(SubSeq(text, nl_index + 2, Len(text)))
       ELSE Strip(SubSeq(text, nl_index + 2, end_index))

\* the forbidden tokens of _validate_sql_safety, in the source's order
forbidden ==
    << "create ", "alter ", "drop ", "truncate ", "rename ", "attach ", "detach ",
       "insert ", "update ", "delete ", "optimize ", "grant ", "revoke " >>

\* _validate_sql_safety scanning for the forbidden tokens before it checks the
\* start of the statement
_validate_sql_safety_DdlFirst(sql_text) ==
    LET sql_clean == Strip(sql_text)
        sql_lower == Lower(sql_clean)
        sql_lower_no_space == JoinSplit(sql_lower)
        allowed_start == \/ StartsWith(sql_lower_no_space, "select ")
                         \/ StartsWith(sql_lower_no_space, "with ")
    IN IF sql_clean = "" THEN REASON_EMPTY
       ELSE IF \/ Contains(sql_lower_no_space, "system.")
               \/ Contains(sql_lower_no_space, " system.")
            THEN REASON_SYSTEM
       ELSE IF \E i \in 1..Len(forbidden) : Contains(sql_lower_no_space, forbidden[i])
            THEN REASON_DDL
       ELSE IF ~allowed_start THEN REASON_NOT_SELECT
       ELSE ""

\* _validate_sql_safety without the lower() of line 267
_validate_sql_safety_CaseSensitive(sql_text) ==
    LET sql_clean == Strip(sql_text)
        sql_lower == sql_clean
        sql_lower_no_space == JoinSplit(sql_lower)
        allowed_start == \/ StartsWith(sql_lower_no_space, "select ")
                         \/ StartsWith(sql_lower_no_space, "with ")
    IN IF sql_clean = "" THEN REASON_EMPTY
       ELSE IF \/ Contains(sql_lower_no_space, "system.")
               \/ Contains(sql_lower_no_space, " system.")
            THEN REASON_SYSTEM
       ELSE IF ~allowed_start THEN REASON_NOT_SELECT
       ELSE IF \E i \in 1..Len(forbidden) : Contains(sql_lower_no_space, forbidden[i])
            THEN REASON_DDL
       ELSE ""

\* _validate_sql_safety checking the start of the statement before the system
\* catalog
_validate_sql_safety_StartFirst(sql_text) ==
    LET sql_clean == Strip(sql_text)
        sql_lower == Lower(sql_clean)
        sql_lower_no_space == JoinSplit(sql_lower)
        allowed_start == \/ StartsWith(sql_lower_no_space, "select ")
                         \/ StartsWith(sql_lower_no_space, "with ")
    IN IF sql_clean = "" THEN REASON_EMPTY
       ELSE IF ~allowed_start THEN REASON_NOT_SELECT
       ELSE IF \/ Contains(sql_lower_no_space, "system.")
               \/ Contains(sql_lower_no_space, " system.")
            THEN REASON_SYSTEM
       ELSE IF \E i \in 1..Len(forbidden) : Contains(sql_lower_no_space, forbidden[i])
            THEN REASON_DDL
       ELSE ""

\* _validate_sql_safety: the reason, "" when the text is accepted
_validate_sql_safety(sql_text) ==
    LET sql_clean == Strip(sql_text)
        sql_lower == Lower(sql_clean)
        sql_lower_no_space == JoinSplit(sql_lower)
        allowed_start == \/ StartsWith(sql_lower_no_space, "select ")
                         \/ StartsWith(sql_lower_no_space, "with ")
    IN IF sql_clean = "" THEN REASON_EMPTY
       ELSE IF \/ Contains(sql_lower_no_space, "system.")
               \/ Contains(sql_lower_no_space, " system.")
            THEN REASON_SYSTEM
       ELSE IF ~allowed_start THEN REASON_NOT_SELECT
       ELSE IF \E i \in 1..Len(forbidden) : Contains(sql_lower_no_space, forbidden[i])
            THEN REASON_DDL
       ELSE ""

\* _build_context_text's and _get_sql_history_text's "sep".join(parts)
RECURSIVE Join(_, _)
Join(parts, sep) ==
    Only({IF ps = <<>> THEN ""
          ELSE IF Len(ps) = 1 THEN ps[1]
          ELSE ps[1] \o sep \o Join(Tail(ps), sep) : ps \in {parts}})

Digits == "0123456789"

RECURSIVE IntToStr(_)
\* str(n) for n >= 0, as the f-string of _get_sql_history_text formats the index
IntToStr(n) ==
    IF n < 10 THEN Ch(Digits, n + 1)
    ELSE IntToStr(n \div 10) \o Ch(Digits, (n % 10) + 1)

SQL_HISTORY_HEADER == "ISTORIYA SQL ZAPROSOV (ot staryh k novym):"

\* _get_sql_history_text on the session's sql_history
_get_sql_history_text(sql_hist) ==
    LET entry(i) == "[" \o IntToStr(i) \o "]\n" \o Strip(sql_hist[i])
        kept == SelectSeq([i \in 1..Len(sql_hist) |-> i],
                          LAMBDA i : Strip(sql_hist[i]) # "")
        parts == <<SQL_HISTORY_HEADER>> \o [k \in 1..Len(kept) |-> entry(kept[k])]
    IN IF sql_hist = <<>> THEN "" ELSE Strip(Join(parts, "\n\n---\n\n"))

\* one dict of a model message list
Msg(role, content) == [role |-> role, content |-> content]

\* _get_chat_history_for_gpt on the session's messages
_get_chat_history_for_gpt(msgs) ==
    LET content(i) == Strip(msgs[i].content)
        keep(i) == /\ msgs[i].role \in {"user", "assistant"}
                   /\ content(i) # ""
                   /\ ~(msgs[i].role = "assistant" /\ StartsWith(content(i), GREETING_PREFIX))
        kept == SelectSeq([i \in 1..Len(msgs) |-> i], keep)
    IN [k \in 1..Len(kept) |->
          Msg(msgs[kept[k]].role,
              IF msgs[kept[k]].role = "user"
              THEN _normalize_user_text(content(kept[k]))
              ELSE content(kept[k]))]

\* _build_context_text on the texts of the hits
_build_context_text(hits) ==
    LET kept == SelectSeq(hits, LAMBDA h : Strip(h) # "")
    IN Strip(Join([k \in 1..Len(kept) |-> Strip(kept[k])], "\n\n"))

\* _get_schema_text on the rows of get_schema, one <<table, columns text>> per
\* table in table order (get_schema's query is ORDER BY table)
_get_schema_text(schema) ==
    LET header == "SHEMA CLICKHOUSE (database = ~" \o CLICKHOUSE_DB \o "~):"
        line(i) == "- ~" \o CLICKHOUSE_DB \o "." \o schema[i][1] \o "~: " \o schema[i][2]
    IN Strip(Join(<<header>> \o [i \in 1..Len(schema) |-> line(i)], "\n"))

\* the system prompts, by name: their wording decides nothing here
ROUTER_PROMPT == "<ROUTER_PROMPT>"

RAG_SYSTEM_PROMPT == "<RAG_SYSTEM_PROMPT>"

SQL_SYSTEM_PROMPT == "<SQL_SYSTEM_PROMPT>"

\* _select_mode's message list
RouterMessages(msgs) ==
    <<Msg("system", ROUTER_PROMPT)>> \o _get_chat_history_for_gpt(msgs)

\* _answer_with_rag's message list
RagMessages(context_text, msgs) ==
    << Msg("system", RAG_SYSTEM_PROMPT),
       Msg("system", Strip("KONTEKST BAZY ZNANIJ:\n" \o context_text)) >>
    \o _get_chat_history_for_gpt(msgs)

\* SqlMessagesHead with the schema block placed before the SQL-history block
SqlMessagesHead_SchemaFirst(schema_text, history, sql_history_text) ==
    <<Msg("system", SQL_SYSTEM_PROMPT)>>
    \o <<Msg("system", schema_text)>>
    \o (IF sql_history_text # "" THEN <<Msg("system", sql_history_text)>> ELSE <<>>)
    \o history

\* the head shared by _generate_sql's and _fix_sql's message lists
SqlMessagesHead(schema_text, history, sql_history_text) ==
    <<Msg("system", SQL_SYSTEM_PROMPT)>>
    \o (IF sql_history_text # "" THEN <<Msg("system", sql_history_text)>> ELSE <<>>)
    \o <<Msg("system", schema_text)>>
    \o history

\* _generate_sql's message list
GenerateMessages(question, schema_text, history, sql_history_text) ==
    SqlMessagesHead(schema_text, history, sql_history_text)
    \o <<Msg("user", Strip(question))>>

\* _fix_sql's message list
FixMessages(question, schema_text, history, sql_history_text, sql_text, error_text) ==
    SqlMessagesHead(schema_text, history, sql_history_text)
    \o << Msg("user",
              Strip("Pochini SQL posle oshibki ClickHouse.\n\n"
                    \o "Vopros polzovatelya:\n" \o Strip(question) \o "\n\n"
                    \o "Oshibka ClickHouse:\n" \o Strip(error_text) \o "\n\n"
                    \o "Ishodnyj SQL:\n" \o Strip(sql_text) \o "\n\n"
                    \o "Verni ispravlennyj SQL.")) >>

\* _run_sql_with_autofix, lines 304-306: the history without the just-asked turn
RunHistory(msgs) ==
    LET history == _get_chat_history_for_gpt(msgs)
    IN IF history # <<>> /\ history[Len(history)].role = "user"
       THEN SubSeq(history, 1, Len(history) - 1)
       ELSE history

(***************************************************************************)
(* clickhouse_client.py: query_run                                         *)
(***************************************************************************)

\* what client.query answers when it does not raise
OK == "<ok>"

\* the DataFrame query_run builds from a result
DF == "<DataFrame>"

\* is_unknown_table taking every database error for an unknown table
is_unknown_table_AnyError(error_text) == TRUE

\* query_run, line 47
is_unknown_table(error_text) ==
    Contains(error_text, "Code: 60") \/ Contains(error_text, "UNKNOWN_TABLE")

\* query_run, lines 59-69: the four replacements applied in dict order
CollapseDbPrefix(query_text) ==
    LET db == Strip(CLICKHOUSE_DB)
        q1 == Replace(query_text, db \o "." \o db \o ".", db \o ".")
        q2 == Replace(q1, "~" \o db \o "~.~" \o db \o "~.", "~" \o db \o "~.")
        q3 == Replace(q2, "~" \o db \o "~." \o db \o ".", "~" \o db \o "~.")
        q4 == Replace(q3, db \o ".~" \o db \o "~.", db \o ".")
    IN q4

\* one client.query submission as the call trace records it
DbCall(text, outcome) ==
    [op |-> "db", arg |-> text, ok |-> (outcome = OK),
     err |-> IF outcome = OK THEN "" ELSE outcome]

\* query_run raising the first error when the submission of the collapsed
\* text fails
query_run_FirstError(query_text, r1, r2) ==
    LET db == Strip(CLICKHOUSE_DB)
        fixed_query == CollapseDbPrefix(query_text)
        first == <<DbCall(query_text, r1)>>
    IN IF r1 = OK THEN [ok |-> TRUE, error |-> "", db |-> first]
       ELSE IF ~is_unknown_table(r1) THEN [ok |-> FALSE, error |-> r1, db |-> first]
       ELSE IF db = "" THEN [ok |-> FALSE, error |-> r1, db |-> first]
       ELSE IF fixed_query # query_text
            THEN [ok |-> (r2 = OK), error |-> (IF r2 = OK THEN "" ELSE r1),
                  db |-> first \o <<DbCall(fixed_query, r2)>>]
       ELSE [ok |-> FALSE, error |-> r1, db |-> first]

\* query_run submitting the collapsed text a second time when its first
\* submission fails
query_run_RetryTwice(query_text, r1, r2) ==
    LET db == Strip(CLICKHOUSE_DB)
        fixed_query == CollapseDbPrefix(query_text)
        first == <<DbCall(query_text, r1)>>
    IN IF r1 = OK THEN [ok |-> TRUE, error |-> "", db |-> first]
       ELSE IF ~is_unknown_table(r1) THEN [ok |-> FALSE, error |-> r1, db |-> first]
       ELSE IF db = "" THEN [ok |-> FALSE, error |-> r1, db |-> first]
       ELSE IF fixed_query # query_text
            THEN [ok |-> (r2 = OK), error |-> (IF r2 = OK THEN "" ELSE r2),
                  db |-> first \o <<DbCall(fixed_query, r2)>>
                         \o (IF r2 = OK THEN <<>> ELSE <<DbCall(fixed_query, r2)>>)]
       ELSE [ok |-> FALSE, error |-> r1, db |-> first]

\* query_run(query_text) when the first client.query answers r1 and a second
\* one, if issued, answers r2 (OK or an error text): whether it returned, the
\* error it raised, and the client.query submissions it made
query_run(query_text, r1, r2) ==
    LET db == Strip(CLICKHOUSE_DB)
        fixed_query == CollapseDbPrefix(query_text)
        first == <<DbCall(query_text, r1)>>
    IN IF r1 = OK THEN [ok |-> TRUE, error |-> "", db |-> first]
       ELSE IF ~is_unknown_table(r1) THEN [ok |-> FALSE, error |-> r1, db |-> first]
       ELSE IF db = "" THEN [ok |-> FALSE, error |-> r1, db |-> first]
       ELSE IF fixed_query # query_text
            THEN [ok |-> (r2 = OK), error |-> (IF r2 = OK THEN "" ELSE r2),
                  db |-> first \o <<DbCall(fixed_query, r2)>>]
       ELSE [ok |-> FALSE, error |-> r1, db |-> first]

(***************************************************************************)
(* Bounds and inputs                                                       *)
(***************************************************************************)

\* turns of the conversation: a question is taken while the session has room
\* for it and for its answer
MaxTurns == 5

\* what the user types: any text st.chat_input returns as truthy
Questions == {"skolko zakazov  pogorodu", " "}

\* replies of the routing model call
RouteReplies ==
    {"~~~mode\nsql\n~~~", "~~~mode\nrag\n~~~", "", "~~~mode\nrag\n~~~\n(not SQL)"}

\* replies of the SQL generation model call
GenReplies ==
    {"", "select 1", "~~~sql\nselect x from db1.db1.t\n~~~", "DROP TABLE orders"}

\* replies of the SQL repair model call
FixReplies ==
    {"", "select 2", "select * from system.tables", "select y from ~db1~.~db1~.t"}

\* replies of the RAG answer model call
AnswerReplies == {"", " Otvet. ", "Zadajte vopros. Kakoj?"}

\* error texts the database reports
DbErrors ==
    {"Code: 60. DB::Exception: UNKNOWN_TABLE", "Code: 62. DB::Exception: Syntax error"}

\* what one client.query submission can answer
DbOutcomes == {OK} \cup DbErrors

\* error texts of a failed model call and of a failed index query
LlmErrors == {"APIConnectionError"}

KbErrors == {"ChromaError"}

\* rows get_schema can return
Schemas == { <<<<"orders", "~id~ Int32">>>>, <<>> }

\* what the index answers for a non-empty query
KbHits == { <<"garantiya 12 mesyacev", " ">> }

\* pieces a text is put together from, for a function applied on its own
MaxSqlTokens == 3

\* every text of at most n pieces
RECURSIVE TokenTexts(_, _)
TokenTexts(tokens, n) ==
    IF n = 0 THEN {""}
    ELSE LET shorter == TokenTexts(tokens, n - 1)
         IN shorter \cup {t \o tok : t \in shorter, tok \in tokens}

\* the pieces of the SQL texts given to _validate_sql_safety
SqlTokens == {"select ", "With ", "DROP ", "insert ", "System.", "x", "\n", " "}

SqlTexts == TokenTexts(SqlTokens, MaxSqlTokens)

\* pieces of a model reply given to _extract_sql_text
MaxReplyTokens == 4

ReplyTokens == {"~~~sql", "~~~Sql", "~~~", "\n", "select 1"}

ReplyTexts == TokenTexts(ReplyTokens, MaxReplyTokens)

(***************************************************************************)
(* State                                                                   *)
(***************************************************************************)

VARIABLES
    messages,          \* st.session_state.messages
    sql_history,       \* st.session_state.sql_history
    pc,                \* position of the script run in the question handler
    nq,                \* questions received so far
    question,          \* the handler's question
    mode_text,         \* _select_mode's local: the routing reply, None outside it
    uncaught,          \* the exception that left the script run, "" if none
    schema_text,       \* _run_sql_with_autofix's locals
    history,
    sql_history_text,
    sql_text,
    fixed_sql,
    error,             \* the exception bound by "except Exception as error"
    exc,               \* the exception propagating to _handle_sql_message
    used_sql,          \* what _run_sql_with_autofix returned
    df,
    context_text,      \* _answer_with_rag's locals
    answer,
    calls,             \* the collaborator calls of the current question, in order
    returned,          \* history variable: the SQL text each run of
                       \* _run_sql_with_autofix that returned, returned
    at_arrival,        \* history variable: the session when the question arrived
    fn_input,          \* the argument of a function applied on its own
    fn_output          \* what the function returned, None before the call

session == <<messages, sql_history>>

sql_locals == <<schema_text, history, sql_history_text, sql_text, fixed_sql, error,
                exc, used_sql, df>>

rag_locals == <<context_text, answer>>

fn_vars == <<fn_input, fn_output>>

vars == <<messages, sql_history, pc, nq, question, mode_text, uncaught, schema_text,
          history, sql_history_text, sql_text, fixed_sql, error, exc, used_sql, df,
          context_text, answer, calls, returned, at_arrival, fn_input, fn_output>>

\* one call of the question's trace: the operation, its argument, the error it
\* raised ("" when it returned; for the validator, the reason it gave) and
\* whether it returned (for the validator, accepted)
Call(op, arg, err) == [op |-> op, arg |-> arg, ok |-> (err = ""), err |-> err]

\* the turns the handlers append to st.session_state.messages
Turn(role, content, sql_query, frame) ==
    [role |-> role, content |-> content, sql_query |-> sql_query, df |-> frame]

\* line 467
UserTurn(q) == Turn("user", q, None, None)

\* line 346
RagTurn(text) == Turn("assistant", text, None, None)

\* lines 360-361
SqlErrorTurn(err) == Turn("assistant", SQL_ERROR_PREFIX \o err, None, None)

\* SqlOkTurn without the SQL text attached
SqlOkTurn_NoSql(sql, frame) == Turn("assistant", SQL_DONE_TEXT, None, frame)

\* lines 367-368
SqlOkTurn(sql, frame) == Turn("assistant", SQL_DONE_TEXT, sql, frame)

\* AppendSqlHistory skipping a text the history already holds
AppendSqlHistory_Dedup(sql_hist, sql) ==
    IF \E i \in 1..Len(sql_hist) : sql_hist[i] = sql THEN sql_hist ELSE Append(sql_hist, sql)

\* AppendSqlHistory keeping only the latest entry
AppendSqlHistory_Pruned(sql_hist, sql) == <<sql>>

\* line 366
AppendSqlHistory(sql_hist, sql) == Append(sql_hist, sql)

\* lines 418-431: the session as first created, no question asked yet
SessionInit ==
    /\ messages = <<Turn("assistant", GREETING, None, None)>>
    /\ sql_history = <<>>
    /\ pc = "idle"
    /\ nq = 0
    /\ question = ""
    /\ mode_text = None
    /\ uncaught = ""
    /\ schema_text = "" /\ history = <<>> /\ sql_history_text = ""
    /\ sql_text = "" /\ fixed_sql = "" /\ error = "" /\ exc = ""
    /\ used_sql = None /\ df = None
    /\ context_text = "" /\ answer = ""
    /\ calls = <<>>
    /\ returned = <<>>
    /\ at_arrival = [messages |-> messages, sql_history |-> sql_history]

\* the application as started: the session, and no function applied on its own
Init == SessionInit /\ fn_input = None /\ fn_output = None

(***************************************************************************)
(* The question handler, lines 464-478                                     *)
(***************************************************************************)

\* line 464-465: st.chat_input returns a question and a fresh script run
\* starts with fresh locals
Arrive ==
    /\ pc = "idle"
    /\ Len(messages) + 2 <= MaxTurns
    /\ \E q \in Questions : question' = q
    /\ nq' = nq + 1
    /\ pc' = "asked"
    /\ mode_text' = None /\ uncaught' = ""
    /\ schema_text' = "" /\ history' = <<>> /\ sql_history_text' = ""
    /\ sql_text' = "" /\ fixed_sql' = "" /\ error' = "" /\ exc' = ""
    /\ used_sql' = None /\ df' = None
    /\ context_text' = "" /\ answer' = ""
    /\ calls' = <<>>
    /\ at_arrival' = [messages |-> messages, sql_history |-> sql_history]
    /\ UNCHANGED <<session, returned>>
    /\ UNCHANGED fn_vars

\* line 467: the question is saved as the last user turn
SaveQuestion ==
    /\ pc = "asked"
    /\ messages' = Append(messages, UserTurn(question))
    /\ pc' = "route"
    /\ UNCHANGED <<sql_history, nq, question, mode_text, uncaught, sql_locals,
                   rag_locals, calls,
                   returned, at_arrival>>
    /\ UNCHANGED fn_vars

\* line 475: the dispatch on the mode
Dispatch(mode) == IF mode = "RAG" THEN "rag" ELSE "sql"

\* line 474, _select_mode, lines 155-162: the routing model call returns a
\* reply, or raises and the exception leaves the script run
SelectModeCall ==
    /\ pc = "route"
    /\ \/ \E reply \in RouteReplies :
             /\ mode_text' = reply
             /\ pc' = "select_mode"
             /\ calls' = Append(calls, Call("route", RouterMessages(messages), ""))
             /\ UNCHANGED uncaught
       \/ \E e \in LlmErrors :
             /\ uncaught' = e
             /\ pc' = "idle"
             /\ calls' = Append(calls, Call("route", RouterMessages(messages), e))
             /\ UNCHANGED mode_text
    /\ UNCHANGED <<session, nq, question, sql_locals, rag_locals, returned, at_arrival>>
    /\ UNCHANGED fn_vars

\* _select_mode, lines 162-165, and the dispatch of lines 475-478
SelectModeReturn ==
    /\ pc = "select_mode"
    /\ pc' = Dispatch(ParseMode(mode_text))
    /\ mode_text' = None
    /\ UNCHANGED <<session, nq, question, uncaught, sql_locals, rag_locals, calls,
                   returned, at_arrival>>
    /\ UNCHANGED fn_vars

(***************************************************************************)
(* The RAG pipeline: _handle_rag_message, _answer_with_rag, retrieve       *)
(***************************************************************************)

\* RetrieveIsEmpty without the empty-query return of lines 50-53
RetrieveIsEmpty_KeyOnly(query, has_key) == ~has_key

\* retriever.retrieve, lines 50-59: whether it returns [] without a query to
\* the index
RetrieveIsEmpty(query, has_key) == Strip(query) = "" \/ ~has_key

\* lines 383-391: retrieval and the context block; an exception of the index
\* query leaves the script run
RagRetrieve ==
    /\ pc = "rag"
    /\ LET query == _normalize_user_text(question)
       IN \E has_key \in BOOLEAN :
            \/ /\ RetrieveIsEmpty(query, has_key)
               /\ context_text' = _build_context_text(<<>>)
               /\ pc' = "rag_answer"
               /\ calls' = Append(calls, Call("retrieve", query, ""))
               /\ UNCHANGED uncaught
            \/ /\ ~RetrieveIsEmpty(query, has_key)
               /\ \E hits \in KbHits :
                    /\ context_text' = _build_context_text(hits)
                    /\ pc' = "rag_answer"
                    /\ calls' = calls \o <<Call("retrieve", query, ""),
                                           Call("kb", query, "")>>
               /\ UNCHANGED uncaught
            \/ /\ ~RetrieveIsEmpty(query, has_key)
               /\ \E e \in KbErrors :
                    /\ uncaught' = e
                    /\ pc' = "idle"
                    /\ calls' = calls \o <<Call("retrieve", query, e),
                                           Call("kb", query, e)>>
               /\ UNCHANGED context_text
    /\ UNCHANGED <<session, nq, question, mode_text, sql_locals, answer,
                   returned, at_arrival>>
    /\ UNCHANGED fn_vars

\* lines 392-398: the answer model call; its exception leaves the script run
RagAnswer ==
    /\ pc = "rag_answer"
    /\ \/ \E reply \in AnswerReplies :
             /\ answer' = Strip(reply)
             /\ pc' = "rag_done"
             /\ calls' = Append(calls,
                    Call("answer", RagMessages(context_text, messages), ""))
             /\ UNCHANGED uncaught
       \/ \E e \in LlmErrors :
             /\ uncaught' = e
             /\ pc' = "idle"
             /\ calls' = Append(calls,
                    Call("answer", RagMessages(context_text, messages), e))
             /\ UNCHANGED answer
    /\ UNCHANGED <<session, nq, question, mode_text, sql_locals, context_text,
                   returned, at_arrival>>
    /\ UNCHANGED fn_vars

\* _handle_rag_message, line 346
HandleRagAnswer ==
    /\ pc = "rag_done"
    /\ messages' = Append(messages, RagTurn(answer))
    /\ pc' = "idle"
    /\ UNCHANGED <<sql_history, nq, question, mode_text, uncaught, sql_locals,
                   rag_locals, calls,
                   returned, at_arrival>>
    /\ UNCHANGED fn_vars

(***************************************************************************)
(* The SQL pipeline: _handle_sql_message, _run_sql_with_autofix            *)
(***************************************************************************)

\* AfterGenerate without the validator gate of lines 316-318
AfterGenerate_NoValidation(reply) ==
    LET sql == _extract_sql_text(reply)
    IN [sql |-> sql, exc |-> IF sql = "" THEN NO_SQL_ERROR ELSE "", calls |-> <<>>]

\* AfterGenerate without the empty-text check of lines 312-313
AfterGenerate_NoEmptyCheck(reply) ==
    LET sql == _extract_sql_text(reply)
        safety_error == _validate_sql_safety(sql)
    IN [sql |-> sql,
        exc |-> IF safety_error # "" THEN SQL_BLOCKED_PREFIX \o safety_error ELSE "",
        calls |-> <<Call("validate", sql, safety_error)>>]

\* lines 311-318, after the generation reply: the SQL text, the validator
\* calls made and the exception raised ("" when the text goes on to execution)
AfterGenerate(reply) ==
    LET sql == _extract_sql_text(reply)
        safety_error == _validate_sql_safety(sql)
    IN IF sql = ""
       THEN [sql |-> sql, exc |-> NO_SQL_ERROR, calls |-> <<>>]
       ELSE [sql |-> sql,
             exc |-> IF safety_error # "" THEN SQL_BLOCKED_PREFIX \o safety_error ELSE "",
             calls |-> <<Call("validate", sql, safety_error)>>]

\* AfterFix without the validator gate of lines 333-335
AfterFix_NoValidation(reply, first_error) ==
    LET sql == _extract_sql_text(reply)
    IN [sql |-> sql, exc |-> IF sql = "" THEN first_error ELSE "", calls |-> <<>>]

\* AfterFix raising a new "no SQL" error for an empty repair instead of the
\* bare raise of line 332
AfterFix_NoSqlError(reply, first_error) ==
    LET sql == _extract_sql_text(reply)
        safety_error == _validate_sql_safety(sql)
    IN IF sql = ""
       THEN [sql |-> sql, exc |-> NO_SQL_ERROR, calls |-> <<>>]
       ELSE [sql |-> sql,
             exc |-> IF safety_error # "" THEN SQL_BLOCKED_PREFIX \o safety_error ELSE "",
             calls |-> <<Call("validate", sql, safety_error)>>]

\* lines 331-335, after the repair reply: the repaired text, the validator
\* calls made and the exception raised; first_error is the exception the bare
\* raise re-raises
AfterFix(reply, first_error) ==
    LET sql == _extract_sql_text(reply)
        safety_error == _validate_sql_safety(sql)
    IN IF sql = ""
       THEN [sql |-> sql, exc |-> first_error, calls |-> <<>>]
       ELSE [sql |-> sql,
             exc |-> IF safety_error # "" THEN SQL_BLOCKED_PREFIX \o safety_error ELSE "",
             calls |-> <<Call("validate", sql, safety_error)>>]

\* line 321: the SQL text returned beside the frame of the first execution
ReturnedSql(generated, res) == generated

\* line 337: the SQL text returned beside the frame of the second execution
ReturnedFixedSql(fixed, res) == fixed

\* ExecFailurePc with a retry loop: a failed repaired execution is repaired again
ExecFailurePc_Loop(stage) == "sql_fix"

\* lines 319-337: where a failed execution call continues: the first one is
\* inside the try and leads to the repair, the repaired one is outside any try
\* and its exception propagates
ExecFailurePc(stage) == IF stage = "first" THEN "sql_fix" ELSE "sql_err"

\* FetchSchema keeping the schema of an earlier run of the session instead of
\* fetching it again
FetchSchema_Cached ==
    /\ pc = "sql"
    /\ history' = RunHistory(messages)
    /\ sql_history_text' = _get_sql_history_text(sql_history)
    /\ \E schema \in Schemas :
         /\ schema_text' = _get_schema_text(schema)
         /\ pc' = "sql_gen"
         /\ calls' = IF sql_history = <<>>
                     THEN Append(calls, Call("schema", CLICKHOUSE_DB, ""))
                     ELSE calls
    /\ UNCHANGED <<session, nq, question, mode_text, uncaught, sql_text, fixed_sql,
                   error, exc, used_sql, df, rag_locals,
                   returned, at_arrival>>
    /\ UNCHANGED fn_vars

\* lines 304-308: the locals and the schema fetch
FetchSchema ==
    /\ pc = "sql"
    /\ history' = RunHistory(messages)
    /\ sql_history_text' = _get_sql_history_text(sql_history)
    /\ \/ \E schema \in Schemas :
             /\ schema_text' = _get_schema_text(schema)
             /\ pc' = "sql_gen"
             /\ calls' = Append(calls, Call("schema", CLICKHOUSE_DB, ""))
             /\ UNCHANGED exc
       \/ \E e \in DbErrors :
             /\ exc' = e
             /\ pc' = "sql_err"
             /\ calls' = Append(calls, Call("schema", CLICKHOUSE_DB, e))
             /\ UNCHANGED schema_text
    /\ UNCHANGED <<session, nq, question, mode_text, uncaught, sql_text, fixed_sql,
                   error, used_sql, df, rag_locals,
                   returned, at_arrival>>
    /\ UNCHANGED fn_vars

\* lines 310-318: the generation model call, extraction and validation
GenerateSql ==
    /\ pc = "sql_gen"
    /\ LET prompt == GenerateMessages(_normalize_user_text(question), schema_text,
                                      history, sql_history_text)
       IN \/ \E reply \in GenReplies :
               LET r == AfterGenerate(reply)
               IN /\ sql_text' = r.sql
                  /\ exc' = r.exc
                  /\ pc' = IF r.exc # "" THEN "sql_err" ELSE "sql_exec"
                  /\ calls' = calls \o <<Call("generate", prompt, "")>> \o r.calls
          \/ \E e \in LlmErrors :
               /\ exc' = e
               /\ pc' = "sql_err"
               /\ calls' = Append(calls, Call("generate", prompt, e))
               /\ UNCHANGED sql_text
    /\ UNCHANGED <<session, nq, question, mode_text, uncaught, schema_text, history,
                   sql_history_text, fixed_sql, error, used_sql, df, rag_locals,
                   returned, at_arrival>>
    /\ UNCHANGED fn_vars

\* lines 319-322: the first execution call
ExecuteSql ==
    /\ pc = "sql_exec"
    /\ \E r1 \in DbOutcomes, r2 \in DbOutcomes :
         LET res == query_run(sql_text, r1, r2)
         IN /\ calls' = calls \o <<Call("query_run", sql_text, res.error)>> \o res.db
            /\ IF res.ok
               THEN /\ used_sql' = ReturnedSql(sql_text, res)
                    /\ df' = DF
                    /\ pc' = "sql_ok"
                    /\ returned' = Append(returned, ReturnedSql(sql_text, res))
                    /\ UNCHANGED error
               ELSE /\ error' = res.error
                    /\ pc' = ExecFailurePc("first")
                    /\ UNCHANGED <<used_sql, df, returned>>
    /\ UNCHANGED <<session, nq, question, mode_text, uncaught, schema_text, history,
                   sql_history_text, sql_text, fixed_sql, exc, rag_locals,
                   at_arrival>>
    /\ UNCHANGED fn_vars

\* lines 323-335: the repair model call, extraction and validation
FixSql ==
    /\ pc = "sql_fix"
    /\ LET prompt == FixMessages(_normalize_user_text(question), schema_text, history,
                                 sql_history_text, sql_text, error)
       IN \/ \E reply \in FixReplies :
               LET r == AfterFix(reply, error)
               IN /\ fixed_sql' = r.sql
                  /\ exc' = r.exc
                  /\ pc' = IF r.exc # "" THEN "sql_err" ELSE "sql_exec_fixed"
                  /\ calls' = calls \o <<Call("fix", prompt, "")>> \o r.calls
          \/ \E e \in LlmErrors :
               /\ exc' = e
               /\ pc' = "sql_err"
               /\ calls' = Append(calls, Call("fix", prompt, e))
               /\ UNCHANGED fixed_sql
    /\ UNCHANGED <<session, nq, question, mode_text, uncaught, schema_text, history,
                   sql_history_text, sql_text, error, used_sql, df, rag_locals,
                   returned, at_arrival>>
    /\ UNCHANGED fn_vars

\* lines 336-337: the execution of the repaired SQL
ExecuteFixedSql ==
    /\ pc = "sql_exec_fixed"
    /\ \E r1 \in DbOutcomes, r2 \in DbOutcomes :
         LET res == query_run(fixed_sql, r1, r2)
         IN /\ calls' = calls \o <<Call("query_run", fixed_sql, res.error)>> \o res.db
            /\ IF res.ok
               THEN /\ used_sql' = ReturnedFixedSql(fixed_sql, res)
                    /\ df' = DF
                    /\ pc' = "sql_ok"
                    /\ returned' = Append(returned, ReturnedFixedSql(fixed_sql, res))
                    /\ UNCHANGED exc
               ELSE /\ exc' = res.error
                    /\ pc' = ExecFailurePc("fixed")
                    /\ UNCHANGED <<used_sql, df, returned>>
    /\ UNCHANGED <<session, nq, question, mode_text, uncaught, schema_text, history,
                   sql_history_text, sql_text, fixed_sql, error, rag_locals,
                   at_arrival>>
    /\ UNCHANGED fn_vars

\* HandleSqlError writing the error turn as soon as the first execution failed,
\* before the repair
HandleSqlError_Early ==
    /\ pc = "sql_fix"
    /\ messages' = Append(messages, SqlErrorTurn(error))
    /\ pc' = "sql_fix"
    /\ UNCHANGED <<sql_history, nq, question, mode_text, uncaught, sql_locals,
                   rag_locals, calls, returned, at_arrival>>
    /\ UNCHANGED fn_vars

\* HandleSqlError also recording the failed SQL text in the query history
HandleSqlError_Logs ==
    /\ pc = "sql_err"
    /\ messages' = Append(messages, SqlErrorTurn(exc))
    /\ sql_history' = Append(sql_history, sql_text)
    /\ pc' = "idle"
    /\ UNCHANGED <<nq, question, mode_text, uncaught, sql_locals, rag_locals, calls,
                   returned, at_arrival>>
    /\ UNCHANGED fn_vars

\* _handle_sql_message, lines 359-364: the pipeline raised
HandleSqlError ==
    /\ pc = "sql_err"
    /\ messages' = Append(messages, SqlErrorTurn(exc))
    /\ pc' = "idle"
    /\ UNCHANGED <<sql_history, nq, question, mode_text, uncaught, sql_locals,
                   rag_locals, calls,
                   returned, at_arrival>>
    /\ UNCHANGED fn_vars

\* _handle_sql_message, lines 366-368: the pipeline returned
HandleSqlOk ==
    /\ pc = "sql_ok"
    /\ sql_history' = AppendSqlHistory(sql_history, used_sql)
    /\ messages' = Append(messages, SqlOkTurn(used_sql, df))
    /\ pc' = "idle"
    /\ UNCHANGED <<nq, question, mode_text, uncaught, sql_locals, rag_locals, calls,
                   returned, at_arrival>>
    /\ UNCHANGED fn_vars

Next ==
    \/ Arrive
    \/ SaveQuestion
    \/ SelectModeCall
    \/ SelectModeReturn
    \/ RagRetrieve
    \/ RagAnswer
    \/ HandleRagAnswer
    \/ FetchSchema
    \/ GenerateSql
    \/ ExecuteSql
    \/ FixSql
    \/ ExecuteFixedSql
    \/ HandleSqlError
    \/ HandleSqlOk

Spec == Init /\ [][Next]_vars

\* the steps of the script run that handles a question: everything but the
\* arrival of the next question
Process ==
    \/ SaveQuestion
    \/ SelectModeCall
    \/ SelectModeReturn
    \/ RagRetrieve
    \/ RagAnswer
    \/ HandleRagAnswer
    \/ FetchSchema
    \/ GenerateSql
    \/ ExecuteSql
    \/ FixSql
    \/ ExecuteFixedSql
    \/ HandleSqlError
    \/ HandleSqlOk

\* the script run goes on while it has a step to take: every collaborator
\* call returns or raises, and the handler's own code between the calls runs
\* to its end
LiveSpec == Spec /\ WF_vars(Process)

(***************************************************************************)
(* The functions applied on their own                                      *)
(***************************************************************************)

pipeline_vars == <<messages, sql_history, pc, nq, question, mode_text, uncaught,
                   sql_locals, rag_locals, calls, returned, at_arrival>>

\* _validate_sql_safety(sql_text) for any SQL text
ValidatorInit == SessionInit /\ fn_input \in SqlTexts /\ fn_output = None

ValidateSql ==
    /\ fn_output = None
    /\ fn_output' = _validate_sql_safety(fn_input)
    /\ UNCHANGED <<fn_input, pipeline_vars>>

ValidatorNext == ValidateSql

ValidatorSpec == ValidatorInit /\ [][ValidatorNext]_vars

\* _extract_sql_text(model_text) for any reply text
ExtractInit == SessionInit /\ fn_input \in ReplyTexts /\ fn_output = None

ExtractSql ==
    /\ fn_output = None
    /\ fn_output' = _extract_sql_text(fn_input)
    /\ UNCHANGED <<fn_input, pipeline_vars>>

ExtractNext == ExtractSql

ExtractSpec == ExtractInit /\ [][ExtractNext]_vars

(***************************************************************************)
(* Auxiliary definitions for the properties                                *)
(***************************************************************************)

\* the positions of the calls of one operation in the trace of the question
Positions(op) == {i \in 1..Len(calls) : calls[i].op = op}

\* a is a prefix of b
IsPrefix(a, b) == Len(a) <= Len(b) /\ SubSeq(b, 1, Len(a)) = a

LastTurn == messages[Len(messages)]

\* the processing of a question has ended and none is in flight
Finished == pc = "idle" /\ nq > 0

\* the last turn is an assistant turn whose content starts with the error marker
LastTurnIsError ==
    LastTurn.role = "assistant" /\ StartsWith(LastTurn.content, SQL_ERROR_PREFIX)

\* the query_run calls made after the repair call
FixedRuns == {j \in Positions("query_run") : \E i \in Positions("fix") : i < j}

\* the client.query submissions that succeeded
DbSuccesses == {i \in Positions("db") : calls[i].ok}

\* the value a routing reply carries in its mode tag: the text between the
\* marker and the next fence, None for a reply without the marker
MarkerValue(reply) ==
    LET text == Lower(Strip(reply))
        at == Find(text, MODE_MARKER, 0)
        from == at + Len(MODE_MARKER)
        close == Find(text, FENCE, from)
    IN IF at = -1 THEN None
       ELSE IF close = -1 THEN Strip(SubSeq(text, from + 1, Len(text)))
       ELSE Strip(SubSeq(text, from + 1, close))

(***************************************************************************)
(* Properties                                                              *)
(***************************************************************************)

\* C1: a SQL text the validator gives a reason for is never passed to
\* query_run, neither as the generated nor as the repaired SQL; the pipeline
\* fails with the blocked-SQL error that carries the validator's reason.
C1_UnsafeSqlNeverExecuted ==
    \A t \in {sql_text, fixed_sql} \cup {calls[i].arg : i \in Positions("query_run")} :
       LET reason == _validate_sql_safety(t)
       IN (t # "" /\ reason # "")
            => /\ \A i \in Positions("query_run") \cup Positions("db") : calls[i].arg # t
               /\ pc \in {"sql_err", "idle"}
               /\ exc = SQL_BLOCKED_PREFIX \o reason
               /\ Finished => LastTurn = SqlErrorTurn(exc)

\* C1 witness: a repaired SQL was rejected after the first execution failed
C1_Witness ==
    /\ Finished
    /\ sql_text = "select 1"
    /\ fixed_sql = "select * from system.tables"
    /\ exc = SQL_BLOCKED_PREFIX \o REASON_SYSTEM
    /\ Cardinality(Positions("query_run")) = 1

\* C2: one question makes at most one repair call and at most one execution
\* of a repaired SQL; the repair call comes only after the first execution call
\* failed; a failed repaired execution is followed by no generation or repair.
C2_AtMostOneRepair ==
    /\ Cardinality(Positions("fix")) <= 1
    /\ Cardinality(Positions("generate")) <= 1
    /\ Cardinality(FixedRuns) <= 1
    /\ \A i \in Positions("fix") :
         \E j \in Positions("query_run") :
            /\ j < i
            /\ ~calls[j].ok
            /\ calls[j].arg = sql_text
            /\ \A k \in Positions("query_run") : k < i => k = j
    /\ \A j \in FixedRuns :
         \A k \in Positions("generate") \cup Positions("fix") : k < j

\* C2 witness: the repaired SQL was executed and failed too
C2_Witness ==
    /\ Finished
    /\ Cardinality(Positions("fix")) = 1
    /\ \E j \in FixedRuns : ~calls[j].ok /\ calls[j].arg = "select 2"

\* C3: between questions the query history holds exactly one entry per run of
\* the SQL pipeline that returned, in order; a run whose first execution failed
\* and whose repaired SQL executed appends one entry, the repaired SQL.
C3_HistoryIsReturnedRuns ==
    /\ pc = "idle" => sql_history = returned
    /\ pc = "sql_ok" => returned = Append(sql_history, used_sql)
    /\ (Finished /\ used_sql # None /\ Positions("fix") # {})
         => sql_history = Append(at_arrival.sql_history, fixed_sql)

\* C3 witness: two runs returned, the second one after a repair, with the
\* same text as the first
C3_Witness ==
    /\ Finished
    /\ Positions("fix") # {}
    /\ sql_history = <<"select 2", "select 2">>

\* C4 (as claimed): the SQL text returned and appended to the query history is
\* the text of the client.query submission that succeeded.
C4_HistoryHoldsExecutedText ==
    (Finished /\ used_sql # None)
      => \E i \in DbSuccesses :
            /\ calls[i].arg = used_sql
            /\ calls[i].arg = sql_history[Len(sql_history)]

\* C5: a failed SQL pipeline leaves the query history as it was when the
\* question arrived; a generated "DROP TABLE orders" causes no execute call
\* and no entry.
C5_FailureLeavesHistory ==
    /\ (pc \in {"sql_err", "idle"} /\ exc # "")
         => sql_history = at_arrival.sql_history
    /\ sql_text = "DROP TABLE orders"
         => /\ Positions("query_run") \cup Positions("db") = {}
            /\ sql_history = at_arrival.sql_history
            /\ \A i \in 1..Len(sql_history) : sql_history[i] # sql_text

\* C5 witness: the DROP statement was generated with a non-empty history and
\* the question ended
C5_Witness ==
    /\ Finished
    /\ sql_text = "DROP TABLE orders"
    /\ exc = SQL_BLOCKED_PREFIX \o REASON_NOT_SELECT
    /\ Len(sql_history) = 1

\* C6: every step leaves the earlier messages and the earlier query history
\* as a prefix of the later ones.
C6_AppendOnly ==
    [][IsPrefix(messages, messages') /\ IsPrefix(sql_history, sql_history')]_vars

\* C6 witness: both sequences have grown over two questions
C6_Witness == Finished /\ Len(sql_history) = 2 /\ Len(messages) = 5

\* C7 (as claimed): no step before the routing and pipeline calls of the
\* question have returned appends to either history.
C7_NoAppendBeforeCompletion ==
    [][(messages' # messages \/ sql_history' # sql_history)
         => pc \in {"rag_done", "sql_ok", "sql_err"}]_vars

\* C7 (amended): the only append before the pipeline call has returned or
\* raised is the user turn of the question, saved before the routing call.
C7_OnlyQuestionBeforeCompletion ==
    [][(messages' # messages \/ sql_history' # sql_history)
         => \/ pc \in {"rag_done", "sql_ok", "sql_err"}
            \/ /\ pc = "asked"
               /\ sql_history' = sql_history
               /\ messages' = Append(messages,
                     [role |-> "user", content |-> question,
                      sql_query |-> None, df |-> None])]_vars

\* C7 witness: the question is saved and its routing call has not been made
C7_Witness ==
    /\ pc = "route"
    /\ calls = <<>>
    /\ messages = Append(at_arrival.messages, UserTurn(question))

\* C8 (as claimed): no failure of a collaborator call leaves the handler, and
\* a question that a failure ended, ended with an error-marked assistant turn.
C8_FailuresBecomeErrorTurns ==
    Finished
      => /\ uncaught = ""
         /\ (calls # <<>> /\ ~calls[Len(calls)].ok) => LastTurnIsError

\* C9 (as claimed): _select_mode returns SQL, and the SQL pipeline starts, only
\* for a routing reply whose mode tag carries the value sql; for every other
\* reply it returns RAG.
C9_SqlOnlyForSqlTag ==
    [][pc = "select_mode"
         => /\ pc' = "sql" => MarkerValue(mode_text) = "sql"
            /\ MarkerValue(mode_text) # "sql" => pc' = "rag"]_vars

\* C10: after a failed first execution, an empty repair propagates the first
\* execution error, a rejected repair propagates the blocked-SQL error and
\* executes nothing more, a failed repaired execution propagates its own error;
\* each time the error is shown as an assistant error turn.
C10_RepairOutcomes ==
    \A i \in Positions("fix") :
       (calls[i].ok /\ exc # "")
         => /\ pc \in {"sql_err", "idle"}
            /\ \E j \in Positions("query_run") :
                 j < i /\ ~calls[j].ok /\ error = calls[j].err
            /\ fixed_sql = ""
                 => exc = error /\ FixedRuns = {}
            /\ (fixed_sql # "" /\ _validate_sql_safety(fixed_sql) # "")
                 => /\ exc = SQL_BLOCKED_PREFIX \o _validate_sql_safety(fixed_sql)
                    /\ FixedRuns = {}
                    /\ \A k \in Positions("db") : k < i
            /\ \A j \in FixedRuns :
                 /\ ~calls[j].ok
                 /\ exc = calls[j].err
                 /\ exc = calls[Len(calls)].err
                 /\ calls[Len(calls)].op = "db"
            /\ Finished => LastTurn = SqlErrorTurn(exc) /\ uncaught = ""

\* C10 witness: the repair gave no SQL and the first execution error is shown
C10_Witness ==
    /\ Finished
    /\ Positions("fix") # {}
    /\ fixed_sql = ""
    /\ LastTurn.content = SQL_ERROR_PREFIX \o "Code: 62. DB::Exception: Syntax error"

\* the keywords the validator is to forbid
ForbiddenKeywords ==
    {"create", "alter", "drop", "truncate", "rename", "attach", "detach", "insert",
     "update", "delete", "optimize", "grant", "revoke"}

\* the text starts, in any letter case, with a forbidden keyword and a space
StartsForbidden(s) == \E kw \in ForbiddenKeywords : StartsWith(Lower(s), kw \o " ")

\* C11 (as claimed): a SQL text that starts, in any letter case, with a
\* forbidden keyword followed by a space is reported unsafe with the DDL/DML
\* reason.
C11_ForbiddenStartGivesDdlReason ==
    (fn_output # None /\ StartsForbidden(fn_input)) => fn_output = REASON_DDL

\* C11 (amended): such a text is reported unsafe, with the system-catalog
\* reason when it contains "system." and with the only-SELECT/WITH reason
\* otherwise; the DDL/DML reason is never the one it gets.
C11_ForbiddenStartIsUnsafe ==
    (fn_output # None /\ StartsForbidden(fn_input))
      => /\ fn_output # ""
         /\ fn_output = IF Contains(Lower(fn_input), "system.")
                        THEN REASON_SYSTEM ELSE REASON_NOT_SELECT

\* C11 witness: a DROP statement was validated
C11_Witness == fn_input = "DROP x" /\ fn_output = REASON_NOT_SELECT

\* C12: a SQL text that contains "system." in any letter case, whatever the
\* whitespace around it, is reported unsafe with the system-catalog reason,
\* also when it has the shape of a SELECT or WITH statement.
C12_SystemCatalogIsUnsafe ==
    (fn_output # None /\ Contains(Lower(fn_input), "system."))
      => fn_output = REASON_SYSTEM

\* C12 witness: a SELECT over the system catalog, in mixed case and on two lines
C12_Witness == fn_input = "select \nSystem." /\ fn_output = REASON_SYSTEM

\* the text the rules of the validator look at: trimmed, lower-cased, each run
\* of whitespace collapsed to one space
Normalized(s) == JoinSplit(Lower(Strip(s)))

Rule1Fires(s) == Strip(s) = ""

Rule2Fires(s) == Contains(Normalized(s), "system.")

Rule3Fires(s) ==
    ~StartsWith(Normalized(s), "select ") /\ ~StartsWith(Normalized(s), "with ")

Rule4Fires(s) == \E kw \in ForbiddenKeywords : Contains(Normalized(s), kw \o " ")

\* C13: the validator gives the reason of the first of the four rules, taken
\* in the order empty, system catalog, not SELECT/WITH, forbidden keyword,
\* that fires, and the empty reason exactly when none fires.
C13_FirstRuleWins ==
    fn_output # None
      => /\ fn_output =
              IF Rule1Fires(fn_input) THEN REASON_EMPTY
              ELSE IF Rule2Fires(fn_input) THEN REASON_SYSTEM
              ELSE IF Rule3Fires(fn_input) THEN REASON_NOT_SELECT
              ELSE IF Rule4Fires(fn_input) THEN REASON_DDL
              ELSE ""
         /\ fn_output = ""
              <=> ~(\/ Rule1Fires(fn_input) \/ Rule2Fires(fn_input)
                    \/ Rule3Fires(fn_input) \/ Rule4Fires(fn_input))

\* C13 witness: the rules 2, 3 and 4 all fire and the reason is that of rule 2
C13_Witness ==
    /\ fn_input = "DROP System."
    /\ Rule2Fires(fn_input) /\ Rule3Fires(fn_input) /\ Rule4Fires(fn_input)
    /\ fn_output = REASON_SYSTEM

\* the retrieve call at position i gave no hits without a query to the index
EmptyRetrieval(i) == i = Len(calls) \/ calls[i + 1].op # "kb"

\* C14: a retrieval for an empty question text or without the embedding
\* credential returns no hits and raises nothing; an empty question never
\* reaches the index; the context block is then empty, one answer call is
\* made and its trimmed reply is the answer of the turn.
C14_EmptyRetrievalIsNoError ==
    \A i \in Positions("retrieve") :
       /\ Strip(calls[i].arg) = "" => Positions("kb") = {}
       /\ EmptyRetrieval(i)
            => /\ calls[i].ok
               /\ context_text = ""
               /\ pc \in {"rag_answer", "rag_done", "idle"}
               /\ pc = "rag_answer" => Positions("answer") = {}
               /\ pc \in {"rag_done", "idle"}
                    => /\ Cardinality(Positions("answer")) = 1
                       /\ \A a \in Positions("answer") :
                            /\ a = i + 1
                            /\ calls[a].arg[2] = Msg("system", "KONTEKST BAZY ZNANIJ:")
                            /\ calls[a].ok
                                 => /\ uncaught = ""
                                    /\ answer \in {Strip(r) : r \in AnswerReplies}
                                    /\ pc = "idle" => LastTurn = RagTurn(answer)

\* C14 witness: an empty question was answered from an empty context
C14_Witness ==
    /\ Finished
    /\ \E i \in Positions("retrieve") : calls[i].arg = "" /\ EmptyRetrieval(i)
    /\ \E a \in Positions("answer") : calls[a].ok
    /\ LastTurn = RagTurn("Otvet.")

\* the client.query submissions of the query_run call at position j: the db
\* calls that follow it with no other call in between
DbRunsOf(j) ==
    {k \in Positions("db") : k > j /\ \A m \in (j + 1)..k : calls[m].op = "db"}

\* the error text belongs to the unknown-table class
UnknownTableClass(e) == Contains(e, "Code: 60") \/ Contains(e, "UNKNOWN_TABLE")

\* the text qualifies a name with the database name twice, quoted or not
HasDuplicatedPrefix(q) ==
    \/ Contains(q, "db1.db1.") \/ Contains(q, "~db1~.~db1~.")
    \/ Contains(q, "~db1~.db1.") \/ Contains(q, "db1.~db1~.")

\* C15: one query_run call submits its text once and at most once more; the
\* second submission is made exactly when the first failed with an
\* unknown-table error and the text holds the duplicated database prefix, it
\* carries the collapsed text, follows the first with no call in between and
\* decides the outcome; otherwise the first error is the one raised.
C15_AtMostOneLocalRetry ==
    /\ \A k \in Positions("db") : \E j \in Positions("query_run") : k \in DbRunsOf(j)
    /\ \A j \in Positions("query_run") :
         LET q == calls[j].arg
             n == Cardinality(DbRunsOf(j))
         IN /\ n \in {1, 2}
            /\ calls[j + 1].arg = q
            /\ n = 2 <=> /\ ~calls[j + 1].ok
                         /\ UnknownTableClass(calls[j + 1].err)
                         /\ HasDuplicatedPrefix(q)
            /\ n = 2 => /\ calls[j + 2].arg # q
                        /\ calls[j + 2].arg = CollapseDbPrefix(q)
                        /\ ~HasDuplicatedPrefix(calls[j + 2].arg)
                        /\ calls[j].ok = calls[j + 2].ok
                        /\ calls[j].err = calls[j + 2].err
            /\ n = 1 => /\ calls[j].ok = calls[j + 1].ok
                        /\ calls[j].err = calls[j + 1].err

\* C15 witness: the collapsed text was submitted after an unknown-table error
\* and failed too, and an unchanged text was not resubmitted after such an error
C15_Witness ==
    \E j \in Positions("query_run"), i \in Positions("query_run") :
       /\ Cardinality(DbRunsOf(j)) = 2
       /\ calls[j + 2].arg = "select x from db1.t"
       /\ ~calls[j + 2].ok
       /\ Cardinality(DbRunsOf(i)) = 1
       /\ UnknownTableClass(calls[i + 1].err)

\* the session's turns while the pipeline of the current question runs
TurnsInFlight == Append(at_arrival.messages, UserTurn(question))

C17_RagPromptCarriesSqlHistory ==
    \A i \in Positions("answer") :
       LET m == calls[i].arg
           has_block == at_arrival.sql_history # <<>>
           k == IF has_block THEN 3 ELSE 2
       IN /\ Len(m) >= k
          /\ m[1] = Msg("system", RAG_SYSTEM_PROMPT)
          /\ has_block
               => m[2] = Msg("system", _get_sql_history_text(at_arrival.sql_history))
          /\ m[k].role = "system"
          /\ StartsWith(m[k].content, "KONTEKST BAZY ZNANIJ:")
          /\ SubSeq(m, k + 1, Len(m)) = _get_chat_history_for_gpt(TurnsInFlight)

\* what the claim expects as the history of the turns: every turn but the
\* initial greeting and the turns of empty content, in order, as role and
\* content (a user turn's content as _normalize_user_text gives it)
ExpectedHistory(turns) ==
    LET kept == SelectSeq([x \in 1..Len(turns) |-> x],
                          LAMBDA x : x # 1 /\ Strip(turns[x].content) # "")
    IN [k \in 1..Len(kept) |->
          [role |-> turns[kept[k]].role,
           content |-> IF turns[kept[k]].role = "user"
                       THEN _normalize_user_text(turns[kept[k]].content)
                       ELSE Strip(turns[kept[k]].content)]]

\* C18 (as claimed): the history given to the model is the session's turns
\* without the initial greeting and without the turns of empty content, in
\* their order, and assembling it leaves the session's turns as they are.
C18_HistoryIsFilteredSession ==
    \A i \in Positions("route") :
       /\ SubSeq(calls[i].arg, 2, Len(calls[i].arg)) = ExpectedHistory(TurnsInFlight)
       /\ pc = "select_mode" => messages = TurnsInFlight

\* C19 (as claimed): in the generation prompt the question is the final user
\* message and the history part is the filtered history of the turns before
\* it: the just-asked question is left out and no earlier turn is.
C19_OnlyCurrentQuestionDropped ==
    \A i \in Positions("generate") :
       LET m == calls[i].arg
           k == IF at_arrival.sql_history # <<>> THEN 3 ELSE 2
       IN /\ m[Len(m)] = Msg("user", _normalize_user_text(question))
          /\ SubSeq(m, k + 1, Len(m) - 1) = _get_chat_history_for_gpt(at_arrival.messages)

\* 0-based positions in a text: where a fence labelled sql (in any letter
\* case) starts, where a fence marker starts, where a line ends
SqlFenceStarts(t) ==
    {p \in 0..(Len(t) - 6) : Lower(SubSeq(t, p + 1, p + 6)) = "~~~sql"}

FenceStarts(t) == {p \in 0..(Len(t) - 3) : SubSeq(t, p + 1, p + 3) = "~~~"}

LineEnds(t) == {n \in 0..(Len(t) - 1) : Ch(t, n + 1) = "\n"}

Least(S) == CHOOSE x \in S : \A y \in S : x <= y

C21_EmptySqlFailsAtOnce ==
    \A i \in Positions("generate") :
       (calls[i].ok /\ sql_text = "")
         => /\ exc = NO_SQL_ERROR
            /\ pc \in {"sql_err", "idle"}
            /\ i = Len(calls)
            /\ Positions("validate") = {}
            /\ Positions("query_run") \cup Positions("db") = {}
            /\ Positions("fix") = {}
            /\ sql_history = at_arrival.sql_history
            /\ Finished => LastTurn = SqlErrorTurn(NO_SQL_ERROR)

\* C21 witness: the generation reply held no SQL and the question ended
C21_Witness ==
    /\ Finished
    /\ \E i \in Positions("generate") : calls[i].ok
    /\ sql_text = ""
    /\ LastTurn.content = SQL_ERROR_PREFIX \o NO_SQL_ERROR

\* a pipeline has been entered for the question: each starts with a call
RagEntered == Positions("retrieve") # {}

SqlEntered == Positions("schema") # {}

\* C22 (as claimed): every question has exactly one routing call, made on the
\* conversation whose last turn is the question, and is then handed to exactly
\* one of the RAG pipeline and the SQL pipeline.
C22_OneRouteOneDispatch ==
    /\ Cardinality(Positions("route")) <= 1
    /\ \A i \in Positions("route") :
         i = 1 /\ calls[i].arg = RouterMessages(TurnsInFlight)
    /\ ~(RagEntered /\ SqlEntered)
    /\ (RagEntered \/ SqlEntered) => Positions("route") # {}
    /\ Finished
         => /\ Cardinality(Positions("route")) = 1
            /\ RagEntered \/ SqlEntered

\* the position of the schema block in a generation or repair message list
SchemaBlockAt == IF at_arrival.sql_history # <<>> THEN 3 ELSE 2

\* C23: a run of the SQL pipeline makes one schema fetch, before its
\* generation call and within the same question; the generation and the
\* repair call of the run carry the schema text of that fetch; a failed fetch
\* ends the run before any generation.
C23_SchemaFetchedOncePerRun ==
    /\ Cardinality(Positions("schema")) <= 1
    /\ \A s \in Positions("schema") :
         /\ s = 2 /\ calls[1].op = "route"
         /\ ~calls[s].ok
              => /\ Positions("generate") \cup Positions("fix") = {}
                 /\ schema_text = ""
         /\ calls[s].ok => schema_text \in {_get_schema_text(sc) : sc \in Schemas}
    /\ \A g \in Positions("generate") \cup Positions("fix") :
         /\ \E s \in Positions("schema") : s < g /\ calls[s].ok
         /\ calls[g].arg[SchemaBlockAt] = Msg("system", schema_text)
    /\ \A g \in Positions("generate"), f \in Positions("fix") :
         calls[g].arg[SchemaBlockAt] = calls[f].arg[SchemaBlockAt]

\* C23 witness: the second SQL run of the session fetched the schema again and
\* its repair call was made
C23_Witness ==
    /\ at_arrival.sql_history # <<>>
    /\ Cardinality(Positions("schema")) = 1
    /\ Positions("fix") # {}
    /\ schema_text = _get_schema_text(<<<<"orders", "~id~ Int32">>>>)

\* C24 (as claimed): every text submitted to the database for a question is a
\* text the validator accepted, in that form, earlier in the same question.
C24_OnlyValidatedTextSubmitted ==
    \A k \in Positions("db") :
       \E v \in Positions("validate") :
          v < k /\ calls[v].ok /\ calls[v].arg = calls[k].arg

\* C25: every entry of the query history is a text the validator accepts.
C25_HistoryEntriesAreSafe ==
    \A i \in 1..Len(sql_history) :
       LET reason == _validate_sql_safety(sql_history[i])
       IN reason = ""

\* C25 witness: the history holds a generated and a repaired SQL text
C25_Witness ==
    /\ Finished
    /\ Positions("fix") # {}
    /\ sql_history = <<"select x from db1.db1.t", "select 2">>

\* the assistant turns that carry an attached SQL string, in order
TurnsWithSql ==
    SelectSeq(messages, LAMBDA m : m.role = "assistant" /\ m.sql_query # None)

\* C26: between questions there are as many assistant turns with an attached
\* SQL string as query history entries, and the i-th such turn carries the
\* i-th entry.
C26_SqlTurnsMatchHistory ==
    pc = "idle"
      => /\ Len(TurnsWithSql) = Len(sql_history)
         /\ \A i \in 1..Len(sql_history) : TurnsWithSql[i].sql_query = sql_history[i]

\* C26 witness: two SQL turns with different texts
C26_Witness ==
    /\ pc = "idle"
    /\ Len(TurnsWithSql) = 2
    /\ TurnsWithSql[1].sql_query = "select 1"
    /\ TurnsWithSql[2].sql_query = "select 2"

\* the execution calls of the generated SQL: the query_run calls before any
\* repair call
FirstRuns == Positions("query_run") \ FixedRuns

\* the user message of the repair call at position f
RepairText(f) == calls[f].arg[Len(calls[f].arg)].content

\* C28: when the first execution call resubmitted the collapsed text and that
\* failed too, the error kept for the repair and written into the repair
\* prompt is the error of the collapsed query, and the failing SQL in the
\* prompt is the generated, uncollapsed text; when the resubmission succeeded,
\* no repair call is made.
C28_RepairSeesCollapsedError ==
    \A j \in FirstRuns :
       Cardinality(DbRunsOf(j)) = 2
         => /\ calls[j].arg = sql_text
            /\ calls[j + 2].arg # sql_text
            /\ calls[j + 2].ok
                 => /\ Positions("fix") = {}
                    /\ calls[j].ok
                    /\ error = "" /\ exc = ""
            /\ ~calls[j + 2].ok
                 => /\ error = calls[j + 2].err
                    /\ \A f \in Positions("fix") :
                         /\ f = j + 3
                         /\ Contains(RepairText(f),
                                     "Oshibka ClickHouse:\n" \o calls[j + 2].err \o "\n")
                         /\ Contains(RepairText(f),
                                     "Ishodnyj SQL:\n" \o sql_text \o "\n")
                         /\ ~Contains(RepairText(f), calls[j + 2].arg)
                         /\ calls[j + 1].err # calls[j + 2].err
                              => ~Contains(RepairText(f), calls[j + 1].err)

\* C28 witness: the collapsed text failed with another error than the first
\* submission and the repair call was made
C28_Witness ==
    \E j \in FirstRuns, f \in Positions("fix") :
       /\ Cardinality(DbRunsOf(j)) = 2
       /\ calls[j + 1].err = "Code: 60. DB::Exception: UNKNOWN_TABLE"
       /\ calls[j + 2].err = "Code: 62. DB::Exception: Syntax error"
       /\ error = calls[j + 2].err

\* the language-model calls of the question
ModelCalls ==
    Positions("route") \cup Positions("generate") \cup Positions("fix")
      \cup Positions("answer")

\* the numbers of calls one question may make
CallBounds ==
    /\ Cardinality(Positions("route")) <= 1
    /\ Cardinality(Positions("generate")) <= 1
    /\ Cardinality(Positions("fix")) <= 1
    /\ Cardinality(Positions("answer")) <= 1
    /\ SqlEntered => Positions("answer") = {} /\ Cardinality(ModelCalls) <= 3
    /\ RagEntered
         => /\ Positions("generate") \cup Positions("fix") = {}
            /\ Cardinality(ModelCalls) <= 2
    /\ Cardinality(Positions("schema")) <= 1
    /\ Cardinality(Positions("query_run")) <= 2
    /\ Cardinality(Positions("db")) <= 4
    /\ \A j \in Positions("query_run") : Cardinality(DbRunsOf(j)) <= 2

=============================================================================
